---- MODULE Spec2Model ----
(***************************************************************************)
(* Model of the collection engine of st-search-dart (src/app.py):          *)
(* collect_financials with its cache table (cached_financials), the        *)
(* remote statement API (get_financial_data), the variant probing and the  *)
(* thread-pool bulk fetch.  One entity (corp_code) is followed; its        *)
(* corp_code column is left out of the rows.  Report names and the Korean  *)
(* display labels carry no control flow and are left out as well.          *)
(* Spec follows the runs of collect_financials; SpecPlan, SpecSave and     *)
(* SpecView apply the period planning, save_financial_data_to_db, and      *)
(* adjust_q4_values with process_dataframe_for_view to drawn inputs.       *)
(* SpecRestated and SpecTwice follow the runs under other answers of the   *)
(* remote, SpecFaults over a database whose reads and writes may fail,     *)
(* SpecPool and SpecOrder follow the thread pool alone, and SpecSearch     *)
(* applies search_company_code to drawn directories.                       *)
(* SpecTerm takes the period-expansion loop one iteration at a time, and   *)
(* SpecBatch follows the batch of src/automation.py.                       *)
(***************************************************************************)
EXTENDS Integers, Sequences, FiniteSets, TLC

(***************************************************************************)
(* Bounds of the model.                                                    *)
(***************************************************************************)
\* A run follows the MaxPeriods most recent periods of the planned list.
MaxPeriods == 2

(***************************************************************************)
(* Program constants.                                                      *)
(***************************************************************************)
\* start_year = quarter_end_year - 4
WindowYears == 4
\* ThreadPoolExecutor(max_workers=10)
max_workers == 10

\* The year_month input of the runs.
Targets == {202512}

\* fs_divs = [('연결', 'CFS'), ('별도', 'OFS')], by code
fs_divs == <<"CFS", "OFS">>

\* key_items / item_map.keys()
key_items == {"ifrs-full_Revenue", "dart_OperatingIncomeLoss"}

(***************************************************************************)
(* Values.  A DataFrame is [ok, rows]; None is the value with ok = FALSE.  *)
(* A number of a DataFrame is [nan, v]: NaN, or the number v.              *)
(***************************************************************************)
None == [ok |-> FALSE, rows |-> <<>>]
DataFrame(rows) == [ok |-> TRUE, rows |-> rows]
NaN == [nan |-> TRUE, v |-> 0]
Num(n) == [nan |-> FALSE, v |-> n]

Range(s) == {s[i] : i \in DOMAIN s}
Min(S) == CHOOSE x \in S : \A y \in S : x <= y

(***************************************************************************)
(* The remote API.  A response either raises (network error, timeout,      *)
(* body that is no JSON object with a status), or carries a status and a   *)
(* list.  A raw amount is the text of the field: wellformed tells whether  *)
(* it is a thousands-separated number, value is that number.               *)
(***************************************************************************)
RawRow(id, nm, wf, n) ==
    [account_id |-> id, account_nm |-> nm, raw |-> [wellformed |-> wf, value |-> n]]

PayloadFull ==
    << RawRow("ifrs-full_Revenue", "Revenue", TRUE, 100),
       RawRow("dart_OperatingIncomeLoss", "OperatingIncome", TRUE, 10),
       RawRow("ifrs-full_Assets", "Assets", TRUE, 5) >>
\* a statement that carries none of the two tracked accounts
PayloadOther == << RawRow("ifrs-full_Assets", "Assets", TRUE, 5) >>

Payloads == {PayloadFull, PayloadOther}

Responses ==
    { [raises |-> TRUE,  status |-> "",    list |-> <<>>],
      [raises |-> FALSE, status |-> "013", list |-> <<>>],
      [raises |-> FALSE, status |-> "000", list |-> <<>>] }
    \cup { [raises |-> FALSE, status |-> "000", list |-> p] : p \in Payloads }

\* what the remote answered: a success status with a non-empty list, or not
Answer(res) ==
    IF ~res.raises /\ res.status = "000" /\ res.list # <<>> THEN "data" ELSE "none"

\* pd.to_numeric(col.str.replace(',', ''), errors='coerce')
to_numeric(raw) == IF raw.wellformed THEN Num(raw.value) ELSE NaN

\* get_financial_data without the "and data.get('list')" test
get_financial_data_drop_list_check(res) ==
    IF res.raises THEN None
    ELSE IF res.status = "000"
         THEN DataFrame([i \in DOMAIN res.list |->
                  [account_id |-> res.list[i].account_id,
                   account_nm |-> res.list[i].account_nm,
                   thstrm_amount |-> to_numeric(res.list[i].raw)]])
         ELSE None

\* get_financial_data: the DataFrame of the list, or None
get_financial_data(res) ==
    IF res.raises THEN None
    ELSE IF res.status = "000" /\ res.list # <<>>
         THEN DataFrame([i \in DOMAIN res.list |->
                  [account_id |-> res.list[i].account_id,
                   account_nm |-> res.list[i].account_nm,
                   thstrm_amount |-> to_numeric(res.list[i].raw)]])
         ELSE None

(***************************************************************************)
(* Period planning.                                                        *)
(***************************************************************************)
\* get_quarter_info with "<" for "<="
get_quarter_info_strict(year_month) ==
    LET year == year_month \div 100
        month == year_month % 100
    IN  IF month < 3 THEN <<1, year, 3>>
        ELSE IF month < 6 THEN <<2, year, 6>>
        ELSE IF month < 9 THEN <<3, year, 9>>
        ELSE <<4, year, 12>>

\* get_quarter_info: <<quarter, year, quarter_end_month>>
get_quarter_info(year_month) ==
    LET year == year_month \div 100
        month == year_month % 100
    IN  IF month <= 3 THEN <<1, year, 3>>
        ELSE IF month <= 6 THEN <<2, year, 6>>
        ELSE IF month <= 9 THEN <<3, year, 9>>
        ELSE <<4, year, 12>>

RECURSIVE PlanLoop(_, _, _, _)
\* the while True loop of collect_financials
PlanLoop(curr_y, curr_q, end_y, end_q) ==
    IF curr_y = end_y /\ curr_q = end_q
    THEN << <<curr_y, curr_q>> >>
    ELSE << <<curr_y, curr_q>> >> \o
         (IF curr_q + 1 > 4
          THEN PlanLoop(curr_y + 1, 1, end_y, end_q)
          ELSE PlanLoop(curr_y, curr_q + 1, end_y, end_q))

\* quarters_to_collect of collect_financials
quarters_to_collect(year_month) ==
    LET qi == get_quarter_info(year_month)
        start_year == qi[2] - WindowYears
        end_q == IF qi[3] = 12 THEN 4 ELSE qi[1]
    IN  PlanLoop(start_year, 1, qi[2], end_q)

\* The periods a run of the model follows: the MaxPeriods most recent ones
\* of quarters_to_collect, in the order of the list.
Window(year_month) ==
    LET all == quarters_to_collect(year_month)
    IN  IF Len(all) <= MaxPeriods THEN all
        ELSE SubSeq(all, Len(all) - MaxPeriods + 1, Len(all))

\* r_code of a quarter (the if/elif chain of the DB loop)
report_code(t_quarter) ==
    IF t_quarter = 1 THEN "11013"
    ELSE IF t_quarter = 2 THEN "11012"
    ELSE IF t_quarter = 3 THEN "11014"
    ELSE "11011"

(***************************************************************************)
(* The cache table cached_financials: a set of rows, primary key           *)
(* (year, report_code, fs_div, account_id).                                *)
(***************************************************************************)
RowsOf(db, year, r_code, fs_div) ==
    {r \in db : r.year = year /\ r.report_code = r_code /\ r.fs_div = fs_div}

\* a set of rows as a sequence, ordered by account_id as key_items lists them
RECURSIVE SetToSeq(_)
SetToSeq(S) ==
    IF S = {} THEN <<>>
    ELSE LET x == CHOOSE r \in S :
                    \A o \in S : (o.account_id = "ifrs-full_Revenue") => (r.account_id = "ifrs-full_Revenue")
         IN  <<x>> \o SetToSeq(S \ {x})

\* get_financial_data_from_db: SELECT account_id, account_nm, thstrm_amount
get_financial_data_from_db(db, year, r_code, fs_div) ==
    LET hit == RowsOf(db, year, r_code, fs_div)
    IN  IF hit = {} THEN None
        ELSE DataFrame(SetToSeq({[account_id |-> r.account_id,
                                  account_nm |-> r.account_nm,
                                  thstrm_amount |-> Num(r.thstrm_amount)] : r \in hit}))

RECURSIVE InsertOrIgnore(_, _)
\* executemany(INSERT OR IGNORE ...): a row whose key is taken is dropped
InsertOrIgnore(db, rows) ==
    IF rows = <<>> THEN db
    ELSE LET r == Head(rows)
             taken == \E o \in db : /\ o.year = r.year /\ o.report_code = r.report_code
                                    /\ o.fs_div = r.fs_div /\ o.account_id = r.account_id
         IN  InsertOrIgnore(IF taken THEN db ELSE db \cup {r}, Tail(rows))

RECURSIVE InsertOrReplace(_, _)
\* executemany(INSERT OR REPLACE ...): row by row, a row replaces the one of its key
InsertOrReplace(db, rows) ==
    IF rows = <<>> THEN db
    ELSE LET r == Head(rows)
             kept == {o \in db : ~(o.year = r.year /\ o.report_code = r.report_code
                                   /\ o.fs_div = r.fs_div /\ o.account_id = r.account_id)}
         IN  InsertOrReplace(kept \cup {r}, Tail(rows))

\* the save below, writing the rows with DataFrame.to_sql(if_exists='replace')
save_replacing_table(db, df, year, quarter, r_code, fs_div) ==
    IF ~df.ok \/ df.rows = <<>> THEN db
    ELSE LET target_df == SelectSeq(df.rows, LAMBDA r : r.account_id \in key_items)
         IN  IF target_df = <<>> THEN db
             ELSE InsertOrReplace({},
                    [i \in DOMAIN target_df |->
                       [year |-> year, quarter |-> quarter, report_code |-> r_code,
                        fs_div |-> fs_div,
                        account_id |-> target_df[i].account_id,
                        account_nm |-> target_df[i].account_nm,
                        thstrm_amount |-> IF target_df[i].thstrm_amount.nan THEN 0
                                          ELSE target_df[i].thstrm_amount.v]])

\* save_financial_data_to_db: the table after the call
save_financial_data_to_db(db, df, year, quarter, r_code, fs_div) ==
    IF ~df.ok \/ df.rows = <<>> THEN db
    ELSE LET target_df == SelectSeq(df.rows, LAMBDA r : r.account_id \in key_items)
         IN  IF target_df = <<>> THEN db
             ELSE InsertOrReplace(db,
                    [i \in DOMAIN target_df |->
                       [year |-> year, quarter |-> quarter, report_code |-> r_code,
                        fs_div |-> fs_div,
                        account_id |-> target_df[i].account_id,
                        account_nm |-> target_df[i].account_nm,
                        thstrm_amount |-> IF target_df[i].thstrm_amount.nan THEN 0
                                          ELSE target_df[i].thstrm_amount.v]])

(***************************************************************************)
(* Quarterly normalisation of the collected rows.                          *)
(***************************************************************************)
RECURSIVE SumAmounts(_)
\* Series.sum(): NaN is skipped
SumAmounts(rows) ==
    IF rows = <<>> THEN 0
    ELSE (IF Head(rows).thstrm_amount.nan THEN 0 ELSE Head(rows).thstrm_amount.v)
         + SumAmounts(Tail(rows))

\* adjust_q4_values with q4_data = df[df['분기'] >= 3]
adjust_q4_values_from_q3(rows) ==
    LET q1_q3_data(year) ==
            SelectSeq(rows, LAMBDA r : r.year = year /\ r.quarter \in {1, 2, 3})
        inSum(row) ==
            LET d == q1_q3_data(row.year)
            IN  /\ d # <<>>
                /\ row.account_id \in {d[i].account_id : i \in DOMAIN d}
                /\ row.fs \in {d[i].fs : i \in DOMAIN d}
        item_sum(row) ==
            SumAmounts(SelectSeq(q1_q3_data(row.year),
                LAMBDA r : r.account_id = row.account_id /\ r.fs = row.fs))
    IN  [i \in DOMAIN rows |->
            IF rows[i].quarter >= 3 /\ inSum(rows[i])
            THEN [rows[i] EXCEPT !.thstrm_amount =
                    IF @.nan THEN NaN ELSE Num(@.v - item_sum(rows[i]))]
            ELSE rows[i]]

\* adjust_q4_values on the rows of the filtered frame
adjust_q4_values(rows) ==
    LET q1_q3_data(year) ==
            SelectSeq(rows, LAMBDA r : r.year = year /\ r.quarter \in {1, 2, 3})
        inSum(row) ==
            LET d == q1_q3_data(row.year)
            IN  /\ d # <<>>
                /\ row.account_id \in {d[i].account_id : i \in DOMAIN d}
                /\ row.fs \in {d[i].fs : i \in DOMAIN d}
        item_sum(row) ==
            SumAmounts(SelectSeq(q1_q3_data(row.year),
                LAMBDA r : r.account_id = row.account_id /\ r.fs = row.fs))
    IN  [i \in DOMAIN rows |->
            IF rows[i].quarter = 4 /\ inSum(rows[i])
            THEN [rows[i] EXCEPT !.thstrm_amount =
                    IF @.nan THEN NaN ELSE Num(@.v - item_sum(rows[i]))]
            ELSE rows[i]]

RECURSIVE Concat(_)
\* pd.concat(all_data) with the columns each dataset was given
Concat(datasets) ==
    IF datasets = <<>> THEN <<>>
    ELSE LET d == Head(datasets)
         IN  [i \in DOMAIN d.rows |->
                [fs |-> d.fs, account_id |-> d.rows[i].account_id,
                 account_nm |-> d.rows[i].account_nm,
                 thstrm_amount |-> d.rows[i].thstrm_amount,
                 year |-> d.year, quarter |-> d.quarter]]
             \o Concat(Tail(datasets))

\* the filter below with item_map holding the revenue account only
ResultOfRevenueOnly(datasets) ==
    adjust_q4_values(SelectSeq(Concat(datasets),
                               LAMBDA r : r.account_id = "ifrs-full_Revenue"))

\* combined -> adjust_q4_values, without the isin(item_map.keys()) filter
ResultOfUnfiltered(datasets) == adjust_q4_values(Concat(datasets))

\* combined -> filtered -> adjust_q4_values
ResultOf(datasets) ==
    adjust_q4_values(SelectSeq(Concat(datasets), LAMBDA r : r.account_id \in key_items))

(***************************************************************************)
(* State.                                                                  *)
(***************************************************************************)
VARIABLES
    cached_financials,   \* the cache table
    processing_status,   \* the entity's processing_status row
    pc,                  \* position of the current run
    year_month,          \* its target
    all_data,            \* its list of datasets
    missing_tasks,       \* its list of periods not found in the cache
    determined_fs_divs,  \* its candidate variants
    idx,                 \* index of the DB loop / of the probing loop
    probe_fs,            \* variant the probing loop fetches next
    api_tasks,           \* the bulk task list
    future,              \* state of each task's future
    result_df,           \* the rows the run returned
    \* history of the run, read by the properties only
    log,                 \* cache lookups and fetches of the run, in order
    outcome,             \* what each bulk task's fetch returned
    db0,                 \* the cache table when the run started
    watch,               \* a key whose fetch returned data in an earlier run
    got,                 \* tracked items the remote returned in the run
    \* a function of the program applied on its own to a drawn input
    u_pc,                \* position: "off" while collect_financials is followed
    u_in,                \* the input
    u_out                \* what the function returned

vars == <<cached_financials, processing_status, pc, year_month, all_data,
          missing_tasks, determined_fs_divs, idx, probe_fs, api_tasks, future,
          result_df, log, outcome, db0, watch, got, u_pc, u_in, u_out>>

\* the variables of collect_financials, and those of a function on its own
run == <<cached_financials, processing_status, pc, year_month, all_data,
         missing_tasks, determined_fs_divs, idx, probe_fs, api_tasks, future,
         result_df, log, outcome, db0, watch, got>>
unit == <<u_pc, u_in, u_out>>

Ev(op, year, quarter, fs, res) ==
    [op |-> op, year |-> year, quarter |-> quarter, fs |-> fs, res |-> res]

Dataset(df, fs, year, quarter) ==
    [rows |-> df.rows, fs |-> fs, year |-> year, quarter |-> quarter]

NoKey == <<0, 0, "">>

NoStatus == [last_base_period |-> 0, status |-> "NONE"]

\* the tracked items of a response, under the key they were asked for
Returned(res, year, quarter, fs) ==
    IF Answer(res) # "data" THEN {}
    ELSE {<<year, quarter, fs, res.list[i].account_id>> :
            i \in {j \in DOMAIN res.list : res.list[j].account_id \in key_items}}

\* keys whose fetch returned data in the current run
ReturnedNow ==
    {<<log[i].year, log[i].quarter, log[i].fs>> :
        i \in {j \in DOMAIN log : log[j].op = "probe" /\ log[j].res = "data"}}
    \cup {<<api_tasks[i].year, api_tasks[i].quarter, api_tasks[i].fs_code>> :
        i \in {j \in DOMAIN api_tasks : outcome[j] = "data"}}

InitRun ==
    /\ cached_financials = {}
    /\ processing_status = NoStatus
    /\ pc = "idle"
    /\ year_month = 0
    /\ all_data = <<>>
    /\ missing_tasks = <<>>
    /\ determined_fs_divs = fs_divs
    /\ idx = 1
    /\ probe_fs = "CFS"
    /\ api_tasks = <<>>
    /\ future = <<>>
    /\ result_df = <<>>
    /\ log = <<>>
    /\ outcome = <<>>
    /\ db0 = {}
    /\ watch = NoKey
    /\ got = {}

Init ==
    /\ InitRun
    /\ u_pc = "off"
    /\ u_in = <<>>
    /\ u_out = <<>>

(***************************************************************************)
(* collect_financials, step by step.                                       *)
(***************************************************************************)
\* the call: the locals before the DB loop
StartRunLocals(ym, w) ==
    /\ pc \in {"idle", "done"}
    /\ year_month' = ym
    /\ all_data' = <<>>
    /\ missing_tasks' = <<>>
    /\ determined_fs_divs' = fs_divs
    /\ idx' = 1
    /\ probe_fs' = "CFS"
    /\ api_tasks' = <<>>
    /\ future' = <<>>
    /\ result_df' = <<>>
    /\ log' = <<>>
    /\ outcome' = <<>>
    /\ db0' = cached_financials
    /\ watch' = w
    /\ got' = {}
    /\ pc' = "scan"
    /\ UNCHANGED <<cached_financials, processing_status>>

StartRun(ym, w) == StartRunLocals(ym, w) /\ UNCHANGED unit

Start(ym) == StartRun(ym, watch)

\* the same call, from now on remembering one key whose fetch returned data
\* in the run that just ended
StartWatching(ym) ==
    /\ watch = NoKey
    /\ \E k \in ReturnedNow : StartRun(ym, k)

\* the loop below, looking up the first candidate variant only
DbLoopFirstOnly(db, fsl, year, r_code) ==
    LET found == get_financial_data_from_db(db, year, r_code, fsl[1]).ok
    IN  [tried |-> <<fsl[1]>>, hit |-> IF found THEN fsl[1] ELSE ""]

\* the loop below without its break: the last variant found is the one kept
DbLoopLastHit(db, fsl, year, r_code) ==
    LET hits == {i \in DOMAIN fsl : get_financial_data_from_db(db, year, r_code, fsl[i]).ok}
        n == IF hits = {} THEN Len(fsl) ELSE CHOOSE i \in hits : \A j \in hits : j <= i
    IN  [tried |-> SubSeq(fsl, 1, n), hit |-> IF hits = {} THEN "" ELSE fsl[n]]

\* for fs in determined_fs_divs: look up, stop at the first hit.
\* tried: the variants looked up; hit: the variant found, "" when none
DbLoop(db, fsl, year, r_code) ==
    LET hits == {i \in DOMAIN fsl : get_financial_data_from_db(db, year, r_code, fsl[i]).ok}
        n == IF hits = {} THEN Len(fsl) ELSE Min(hits)
    IN  [tried |-> SubSeq(fsl, 1, n), hit |-> IF hits = {} THEN "" ELSE fsl[n]]

\* the log of one DbLoop
LookupEvents(op, l, year, quarter) ==
    [i \in DOMAIN l.tried |->
        Ev(op, year, quarter, l.tried[i], IF l.tried[i] = l.hit THEN "hit" ELSE "miss")]

\* the narrowing below, left out
NarrowNever(fs_code, determined) == determined

\* the narrowing below, putting both candidates back when its test fails
NarrowOrReset(fs_code, determined) ==
    IF fs_code = "CFS" /\ Len(determined) > 1 THEN <<"CFS">> ELSE fs_divs

\* if fs_code == 'CFS' and len(determined_fs_divs) > 1

Narrow(fs_code, determined) ==
    IF fs_code = "CFS" /\ Len(determined) > 1 THEN <<"CFS">> ELSE determined

\* the table as the reads of one step see it: a read that raises returns
\* None (get_financial_data_from_db: except Exception), as if no row of the
\* variant were stored; failing = the variants whose read raises
Seen(db, failing) == {r \in db : r.fs_div \notin failing}

\* 1. DB lookup of one period of quarters_to_collect
ScanPeriodSeeing(failing) ==
    /\ pc = "scan"
    /\ \E plan \in {Window(year_month)} :
       LET t_year == plan[idx][1]
           t_quarter == plan[idx][2]
           r_code == report_code(t_quarter)
           l == DbLoop(Seen(cached_financials, failing), determined_fs_divs, t_year, r_code)
           det == IF l.hit # "" THEN Narrow(l.hit, determined_fs_divs)
                  ELSE determined_fs_divs
           miss == IF l.hit # "" THEN missing_tasks
                   ELSE Append(missing_tasks,
                          [year |-> t_year, quarter |-> t_quarter, report_code |-> r_code])
       IN  /\ log' = log \o LookupEvents("db", l, t_year, t_quarter)
           /\ all_data' = IF l.hit # ""
                          THEN Append(all_data,
                                 Dataset(get_financial_data_from_db(
                                             Seen(cached_financials, failing),
                                             t_year, r_code, l.hit),
                                         l.hit, t_year, t_quarter))
                          ELSE all_data
           /\ determined_fs_divs' = det
           /\ missing_tasks' = miss
           /\ IF idx < Len(plan)
              THEN /\ idx' = idx + 1
                   /\ pc' = "scan"
              ELSE /\ idx' = 1
                   /\ pc' = IF miss = <<>> THEN "finish"
                            ELSE IF Len(det) > 1 THEN "probe" ELSE "prepare"
    /\ UNCHANGED <<cached_financials, processing_status, year_month, probe_fs,
                   api_tasks, future, result_df, outcome, db0, watch, got>>
    /\ UNCHANGED unit

\* the step with a database that answers every read
ScanPeriod == ScanPeriodSeeing({})

\* key=lambda x: (x[0], x[1])
KeyLess(a, b) == a.year < b.year \/ (a.year = b.year /\ a.quarter < b.quarter)

RECURSIVE InsertDesc(_, _)
InsertDesc(x, s) ==
    IF s = <<>> THEN <<x>>
    ELSE IF KeyLess(Head(s), x) THEN <<x>> \o s
    ELSE <<Head(s)>> \o InsertDesc(x, Tail(s))

\* sorted(missing_tasks, key=...) without reverse=True
RECURSIVE InsertAsc(_, _)
InsertAsc(x, s) ==
    IF s = <<>> THEN <<x>>
    ELSE IF KeyLess(x, Head(s)) THEN <<x>> \o s
    ELSE <<Head(s)>> \o InsertAsc(x, Tail(s))

RECURSIVE sorted_ascending(_)
sorted_ascending(missing) ==
    IF missing = <<>> THEN <<>>
    ELSE InsertAsc(missing[Len(missing)], sorted_ascending(SubSeq(missing, 1, Len(missing) - 1)))

RECURSIVE sorted_missing(_)
\* sorted(missing_tasks, key=..., reverse=True)
sorted_missing(missing) ==
    IF missing = <<>> THEN <<>>
    ELSE InsertDesc(missing[Len(missing)], sorted_missing(SubSeq(missing, 1, Len(missing) - 1)))

\* the probing loop sending its requests without waiting for the answers
ProbeFetchNoWait(res) ==
    /\ pc = "probe"
    /\ LET sm == sorted_missing(missing_tasks)
           t == sm[idx]
       IN  /\ log' = Append(log, Ev("probe", t.year, t.quarter, probe_fs, "sent"))
           /\ IF probe_fs = "CFS"
              THEN /\ probe_fs' = "OFS"
                   /\ UNCHANGED <<idx, pc>>
              ELSE /\ probe_fs' = "CFS"
                   /\ IF idx < Len(sm)
                      THEN /\ idx' = idx + 1
                           /\ pc' = "probe"
                      ELSE /\ idx' = 1
                           /\ pc' = "prepare"
    /\ UNCHANGED <<cached_financials, processing_status, year_month, all_data,
                   missing_tasks, determined_fs_divs, api_tasks, future, result_df,
                   outcome, db0, watch, got>>
    /\ UNCHANGED unit

\* Probing: one get_financial_data call of the loop over sorted_missing;
\* written: whether the INSERT of the save went through (when it raises,
\* save_financial_data_to_db reports the error and returns)
ProbeFetchSaving(res, written) ==
    /\ pc = "probe"
    /\ LET sm == sorted_missing(missing_tasks)
           t == sm[idx]
           df == get_financial_data(res)
       IN  /\ log' = Append(log, Ev("probe", t.year, t.quarter, probe_fs, Answer(res)))
           /\ got' = got \cup Returned(res, t.year, t.quarter, probe_fs)
           /\ IF df.ok
              THEN /\ determined_fs_divs' = <<probe_fs>>
                   /\ cached_financials' =
                        IF written
                        THEN save_financial_data_to_db(cached_financials, df, t.year,
                                                       t.quarter, t.report_code, probe_fs)
                        ELSE cached_financials
                   /\ pc' = "prepare"
                   /\ idx' = 1
                   /\ probe_fs' = "CFS"
              ELSE /\ UNCHANGED <<determined_fs_divs, cached_financials>>
                   /\ IF probe_fs = "CFS"
                      THEN /\ probe_fs' = "OFS"
                           /\ UNCHANGED <<idx, pc>>
                      ELSE /\ probe_fs' = "CFS"
                           /\ IF idx < Len(sm)
                              THEN /\ idx' = idx + 1
                                   /\ pc' = "probe"
                              ELSE /\ idx' = 1
                                   /\ pc' = "prepare"
    /\ UNCHANGED <<processing_status, year_month, all_data, missing_tasks,
                   api_tasks, future, result_df, outcome, db0, watch>>
    /\ UNCHANGED unit

\* the step with a database that takes every write
ProbeFetch(res) == ProbeFetchSaving(res, TRUE)

\* the task loop below, over the first candidate variant only
TaskVariantsFirstOnly(determined) == <<determined[1]>>

\* the task loop below, run twice per period
TaskVariantsTwice(determined) == determined \o determined

\* the task loop below, over fs_divs instead of determined_fs_divs
TaskVariantsAll(determined) == fs_divs

\* the variants a still-missing period is fetched under:
\* for fs_name, fs_code in determined_fs_divs
TaskVariants(determined) == determined

RECURSIVE PrepareLoop(_, _, _, _)
\* the loop that re-checks the cache for every missing period and lists the
\* fetch tasks of those still missing; acc = [all_data, api_tasks, log]
PrepareLoop(db, determined, missing, acc) ==
    IF missing = <<>> THEN acc
    ELSE LET t == Head(missing)
             l == DbLoop(db, determined, t.year, t.report_code)
             ev == LookupEvents("recheck", l, t.year, t.quarter)
             tv == TaskVariants(determined)
         IN  IF l.hit # ""
             THEN PrepareLoop(db, determined, Tail(missing),
                    [all_data |-> Append(acc.all_data,
                        Dataset(get_financial_data_from_db(db, t.year, t.report_code, l.hit),
                                l.hit, t.year, t.quarter)),
                     api_tasks |-> acc.api_tasks,
                     log |-> acc.log \o ev])
             ELSE PrepareLoop(db, determined, Tail(missing),
                    [all_data |-> acc.all_data,
                     api_tasks |-> acc.api_tasks \o
                        [i \in DOMAIN tv |->
                            [year |-> t.year, quarter |-> t.quarter,
                             report_code |-> t.report_code, fs_code |-> tv[i]]],
                     log |-> acc.log \o ev])

\* Preparing the parallel calls, and executor.submit of every task
PrepareTasksSeeing(failing) ==
    /\ pc = "prepare"
    /\ LET r == PrepareLoop(Seen(cached_financials, failing), determined_fs_divs,
                            missing_tasks,
                            [all_data |-> all_data, api_tasks |-> <<>>, log |-> log])
       IN  /\ all_data' = r.all_data
           /\ api_tasks' = r.api_tasks
           /\ log' = r.log
           /\ future' = [i \in DOMAIN r.api_tasks |-> "queued"]
           /\ outcome' = [i \in DOMAIN r.api_tasks |-> "pending"]
           /\ pc' = IF r.api_tasks = <<>> THEN "finish" ELSE "bulk"
    /\ UNCHANGED <<cached_financials, processing_status, year_month,
                   missing_tasks, determined_fs_divs, idx, probe_fs, result_df,
                   db0, watch, got>>
    /\ UNCHANGED unit

PrepareTasks == PrepareTasksSeeing({})

Queued == {i \in DOMAIN future : future[i] = "queued"}
Running == {i \in DOMAIN future : future[i] = "running"}

\* the step below in a pool that starts a thread per submitted task
StartTaskNoCeiling ==
    /\ pc = "bulk"
    /\ Queued # {}
    /\ LET i == Min(Queued)
           t == api_tasks[i]
       IN  /\ future' = [future EXCEPT ![i] = "running"]
           /\ log' = Append(log, Ev("task", t.year, t.quarter, t.fs_code, "sent"))
    /\ UNCHANGED <<cached_financials, processing_status, pc, year_month,
                   all_data, missing_tasks, determined_fs_divs, idx, probe_fs,
                   api_tasks, result_df, outcome, db0, watch, got>>
    /\ UNCHANGED unit

\* a worker of the pool takes the next queued task and sends its request
StartTask ==
    /\ pc = "bulk"
    /\ Queued # {}
    /\ Cardinality(Running) < max_workers
    /\ LET i == Min(Queued)
           t == api_tasks[i]
       IN  /\ future' = [future EXCEPT ![i] = "running"]
           /\ log' = Append(log, Ev("task", t.year, t.quarter, t.fs_code, "sent"))
    /\ UNCHANGED <<cached_financials, processing_status, pc, year_month,
                   all_data, missing_tasks, determined_fs_divs, idx, probe_fs,
                   api_tasks, result_df, outcome, db0, watch, got>>
    /\ UNCHANGED unit

\* a task's request ends with response res and as_completed hands its future
\* to the loop body: save, label, append
TaskDoneSaving(i, res, written) ==
    /\ pc = "bulk"
    /\ i \in Running
    /\ LET t == api_tasks[i]
           df == get_financial_data(res)
           fut == [future EXCEPT ![i] = "done"]
       IN  /\ future' = fut
           /\ outcome' = [outcome EXCEPT ![i] = Answer(res)]
           /\ got' = got \cup Returned(res, t.year, t.quarter, t.fs_code)
           /\ cached_financials' =
                IF df.ok /\ written
                THEN save_financial_data_to_db(cached_financials, df, t.year,
                                               t.quarter, t.report_code, t.fs_code)
                ELSE cached_financials
           /\ all_data' =
                IF df.ok
                THEN Append(all_data, Dataset(df, t.fs_code, t.year, t.quarter))
                ELSE all_data
           /\ pc' = IF \A j \in DOMAIN fut : fut[j] = "done" THEN "finish" ELSE "bulk"
    /\ UNCHANGED <<processing_status, year_month, missing_tasks,
                   determined_fs_divs, idx, probe_fs, api_tasks, result_df, log,
                   db0, watch>>
    /\ UNCHANGED unit

TaskDone(i, res) == TaskDoneSaving(i, res, TRUE)

\* after the session block: the result and the processing_status row
Finish ==
    /\ pc = "finish"
    /\ IF all_data = <<>>
       THEN /\ result_df' = <<>>
            /\ UNCHANGED processing_status
       ELSE /\ result_df' = ResultOf(all_data)
            /\ processing_status' =
                 [last_base_period |-> year_month,
                  status |-> IF ResultOf(all_data) # <<>> THEN "SUCCESS" ELSE "NOT_FOUND"]
    /\ pc' = "done"
    /\ UNCHANGED <<cached_financials, year_month, all_data, missing_tasks,
                   determined_fs_divs, idx, probe_fs, api_tasks, future, log,
                   outcome, db0, watch, got>>
    /\ UNCHANGED unit

Next ==
    \/ \E ym \in Targets : Start(ym)
    \/ ScanPeriod
    \/ \E res \in Responses : ProbeFetch(res)
    \/ PrepareTasks
    \/ StartTask
    \/ \E i \in DOMAIN future : \E res \in Responses : TaskDone(i, res)
    \/ Finish

Spec == Init /\ [][Next]_vars

NextWatch ==
    \/ Next
    \/ \E ym \in Targets : StartWatching(ym)

\* the runs, with one returned key remembered across them
SpecWatch == Init /\ [][NextWatch]_vars

(***************************************************************************)
(* Properties.                                                             *)
(***************************************************************************)
Key(e) == <<e.year, e.quarter, e.fs>>
IsFetch(e) == e.op \in {"probe", "task"}
IsLookup(e) == e.op \in {"db", "recheck"}
Fetches == {i \in DOMAIN log : IsFetch(log[i])}
ProbeEvents == SelectSeq(log, LAMBDA e : e.op = "probe")
Planned == Range(Window(year_month))
Cached(db, year, quarter, fs) == RowsOf(db, year, report_code(quarter), fs) # {}
\* position of a period on the time axis
Ord(year, quarter) == 4 * year + quarter
MissingPeriods == {<<missing_tasks[i].year, missing_tasks[i].quarter>> : i \in DOMAIN missing_tasks}
\* missing periods the re-check did not find either
StillMissing ==
    {p \in MissingPeriods :
        ~\E i \in DOMAIN log : /\ log[i].op = "recheck" /\ log[i].res = "hit"
                               /\ log[i].year = p[1] /\ log[i].quarter = p[2]}
TasksOf(year, quarter, fs) ==
    {i \in DOMAIN api_tasks : /\ api_tasks[i].year = year /\ api_tasks[i].quarter = quarter
                              /\ api_tasks[i].fs_code = fs}
\* the task a "task" event of the log started: tasks start in list order
TaskNo(i) == Cardinality({j \in 1..i : log[j].op = "task"})
AfterPrepare == pc \in {"bulk", "finish", "done"}

\* C1: every network fetch of a run, probe or bulk task, comes after a cache
\* lookup of the same (year, report kind, variant) in that run that missed.
C1_CacheFirst ==
    \A i \in Fetches :
        \E j \in 1..(i - 1) :
            IsLookup(log[j]) /\ Key(log[j]) = Key(log[i]) /\ log[j].res = "miss"

C1_Witness ==
    /\ pc = "done"
    /\ \E i \in Fetches : log[i].op = "probe"
    /\ \E i \in Fetches : log[i].op = "task"

\* C2: a key whose fetch returned data in an earlier run is not fetched by a
\* later run, whatever the payload was.
C2_NeverRefetched ==
    \A i \in Fetches : Key(log[i]) # watch

\* C3: a period whose probe returned data is in the cache before the bulk
\* phase starts and has no task in the bulk task list.
C3_ProbeHitCachedNotTasked ==
    AfterPrepare =>
        \A i \in Fetches :
            (log[i].op = "probe" /\ log[i].res = "data") =>
                /\ Cached(cached_financials, log[i].year, log[i].quarter, log[i].fs)
                /\ \A t \in Range(api_tasks) :
                      ~(t.year = log[i].year /\ t.quarter = log[i].quarter)

FetchFailed(i) ==
    IF log[i].op = "probe" THEN log[i].res = "none" ELSE outcome[TaskNo(i)] = "none"

\* C4 as claimed: a key whose fetch failed or returned empty is not fetched
\* again in the same run.
C4_NoRetry ==
    \A i \in Fetches : \A j \in Fetches :
        (i < j /\ FetchFailed(i)) => Key(log[i]) # Key(log[j])

\* C4 as amended: a key is fetched at most once by probing and at most once by
\* a bulk task; the only second fetch of a key in a run is the bulk task of a
\* key that was probed before.
C4_OncePerPhase ==
    \A i \in Fetches : \A j \in Fetches :
        (i < j /\ Key(log[i]) = Key(log[j])) =>
            (log[i].op = "probe" /\ log[j].op = "task")

C4_Witness ==
    /\ pc = "done"
    /\ \E i \in Fetches : \E j \in Fetches :
          /\ i < j /\ Key(log[i]) = Key(log[j])
          /\ log[i].res = "none" /\ outcome[TaskNo(j)] = "none"

\* C5: when the cache held, at the start of the run, an item of a planned
\* period under a variant, the run issues no probe, fetches nothing under the
\* other variant, and looks nothing up under the other variant after the
\* lookup that found the item.
C5_CacheEvidenceConfirms ==
    \A v \in Range(fs_divs) :
        (pc # "idle" /\ \E p \in Planned : Cached(db0, p[1], p[2], v)) =>
            /\ \A i \in Fetches : log[i].op # "probe" /\ log[i].fs = v
            /\ \A i \in DOMAIN log : \A j \in DOMAIN log :
                  (i < j /\ IsLookup(log[i]) /\ log[i].fs = v /\ log[i].res = "hit"
                   /\ IsLookup(log[j])) => log[j].fs = v

CachedCFS == {p \in Planned : Cached(db0, p[1], p[2], "CFS")}
OneConsolidatedRestMissing ==
    /\ pc # "idle"
    /\ CachedCFS # {}
    /\ \A p \in Planned \ CachedCFS : \A v \in Range(fs_divs) : ~Cached(db0, p[1], p[2], v)

\* C6: with a Consolidated item cached for at least one planned period and
\* every other planned period missing, no fetch of the run is under Separate.
C6_NarrowOnConsolidated ==
    OneConsolidatedRestMissing => \A i \in Fetches : log[i].fs # "OFS"

\* the cached item is at the last planned period, an earlier one was fetched
C6_Witness ==
    /\ pc = "done"
    /\ OneConsolidatedRestMissing
    /\ LET plan == Window(year_month)
       IN  /\ plan[Len(plan)] \in CachedCFS
           /\ plan[1] \notin CachedCFS
           /\ \E i \in Fetches : log[i].year = plan[1][1] /\ log[i].quarter = plan[1][2]

\* C7: probes visit the missing periods from the most recent one down without
\* skipping any; per period Consolidated first, Separate only after
\* Consolidated returned no data; no probe follows one that returned data.
C7_ProbingOrder ==
    LET P == ProbeEvents
    IN  \A i \in DOMAIN P :
          /\ <<P[i].year, P[i].quarter>> \in MissingPeriods
          /\ (i < Len(P)) => P[i].res = "none"
          /\ (P[i].fs = "OFS") =>
                /\ i > 1
                /\ P[i - 1].fs = "CFS"
                /\ P[i - 1].year = P[i].year /\ P[i - 1].quarter = P[i].quarter
          /\ (P[i].fs = "CFS" /\ i = 1) =>
                \A p \in MissingPeriods : Ord(p[1], p[2]) <= Ord(P[i].year, P[i].quarter)
          /\ (P[i].fs = "CFS" /\ i > 1) =>
                /\ P[i - 1].fs = "OFS"
                /\ Ord(P[i].year, P[i].quarter) < Ord(P[i - 1].year, P[i - 1].quarter)
                /\ \A p \in MissingPeriods :
                      ~(/\ Ord(P[i].year, P[i].quarter) < Ord(p[1], p[2])
                        /\ Ord(p[1], p[2]) < Ord(P[i - 1].year, P[i - 1].quarter))

\* probing went on to an older period and ended on a Separate answer there
C7_Witness ==
    LET P == ProbeEvents
    IN  /\ pc = "done"
        /\ Len(P) = 4
        /\ P[4].res = "data"
        /\ Ord(P[4].year, P[4].quarter) < Ord(P[1].year, P[1].quarter)

Unresolved ==
    /\ AfterPrepare
    /\ ProbeEvents # <<>>
    /\ \A i \in DOMAIN ProbeEvents : ProbeEvents[i].res = "none"

\* C8: when probing ended with no data under either variant, the bulk task
\* list holds exactly one task per (still-missing period, variant).
C8_UnresolvedFanOut ==
    Unresolved =>
        /\ Len(api_tasks) = 2 * Cardinality(StillMissing)
        /\ \A p \in StillMissing : \A v \in {"CFS", "OFS"} :
              Cardinality(TasksOf(p[1], p[2], v)) = 1

C8_Witness ==
    /\ Unresolved
    /\ pc = "done"
    /\ Cardinality(StillMissing) = Len(Window(year_month))
    /\ Cardinality(StillMissing) > 1

ProbeLockedConsolidated ==
    LET plan == Window(year_month)
    IN  /\ db0 = {}
        /\ ProbeEvents # <<>>
        /\ ProbeEvents[1].res = "data"
        /\ ProbeEvents[1].fs = "CFS"
        /\ <<ProbeEvents[1].year, ProbeEvents[1].quarter>> = plan[Len(plan)]

\* C9: from an empty cache, when the probe of the most recent planned period
\* returns data under Consolidated, every later fetch of the run is under
\* Consolidated and the bulk list holds exactly one task per period that is
\* still missing.
C9_ProbeLockIn ==
    ProbeLockedConsolidated =>
        /\ \A i \in Fetches : log[i].fs = "CFS"
        /\ AfterPrepare =>
              /\ Len(api_tasks) = Cardinality(StillMissing)
              /\ \A p \in StillMissing : Cardinality(TasksOf(p[1], p[2], "CFS")) = 1

C9_Witness ==
    /\ ProbeLockedConsolidated
    /\ pc = "done"
    /\ Cardinality(StillMissing) = Len(Window(year_month)) - 1
    /\ \E i \in Fetches : log[i].op = "task"

DatasetsOf(t) ==
    {k \in DOMAIN all_data : /\ all_data[k].year = t.year /\ all_data[k].quarter = t.quarter
                             /\ all_data[k].fs = t.fs_code}

\* C10: a bulk task whose fetch failed leaves no dataset in all_data and no
\* row in the cache; when the run has returned, every task of the batch has
\* run, and every task that got data has its dataset in all_data and the
\* tracked rows of it in the cache.
C10_FailureContainment ==
    /\ \A i \in DOMAIN api_tasks :
          outcome[i] = "none" =>
              /\ DatasetsOf(api_tasks[i]) = {}
              /\ ~Cached(cached_financials, api_tasks[i].year, api_tasks[i].quarter,
                         api_tasks[i].fs_code)
    /\ pc = "done" =>
          \A i \in DOMAIN api_tasks :
              /\ future[i] = "done"
              /\ outcome[i] = "data" =>
                    /\ Cardinality(DatasetsOf(api_tasks[i])) = 1
                    /\ \A k \in DatasetsOf(api_tasks[i]) :
                          /\ all_data[k].rows # <<>>
                          /\ \A r \in Range(all_data[k].rows) :
                                r.account_id \in key_items =>
                                   \E c \in RowsOf(cached_financials, api_tasks[i].year,
                                                   api_tasks[i].report_code,
                                                   api_tasks[i].fs_code) :
                                      c.account_id = r.account_id

\* one task of the batch failed, another one got data that is cached
C10_Witness ==
    /\ pc = "done"
    /\ \E i \in DOMAIN api_tasks : \E j \in DOMAIN api_tasks :
          /\ outcome[i] = "none"
          /\ outcome[j] = "data"
          /\ Cached(cached_financials, api_tasks[j].year, api_tasks[j].quarter,
                    api_tasks[j].fs_code)

\* every fetch of the run so far was answered with no data
NothingFetched ==
    /\ \A i \in Fetches : log[i].op = "probe" => log[i].res = "none"
    /\ \A i \in DOMAIN outcome : outcome[i] # "data"

\* C11: a run that started on an empty cache and whose every fetch, under
\* both variants and for every planned period, returned no data has collected
\* nothing, returns the empty result, and leaves the cache empty.
C11_EmptyResult ==
    (pc = "done" /\ db0 = {} /\ NothingFetched) =>
        /\ all_data = <<>>
        /\ result_df = <<>>
        /\ cached_financials = {}

\* every planned period was probed under both variants and fetched again
\* under both by the bulk tasks
C11_Witness ==
    /\ pc = "done"
    /\ db0 = {}
    /\ NothingFetched
    /\ \A p \in Planned : \A v \in Range(fs_divs) :
          /\ \E i \in Fetches : log[i].op = "probe" /\ Key(log[i]) = <<p[1], p[2], v>>
          /\ TasksOf(p[1], p[2], v) # {}
    /\ result_df = <<>>

\* items of the cache under the keys a lookup of the run found
FoundInCache ==
    UNION {{<<log[i].year, log[i].quarter, log[i].fs, r.account_id>> :
              r \in RowsOf(cached_financials, log[i].year, report_code(log[i].quarter),
                           log[i].fs)} :
           i \in {j \in DOMAIN log : IsLookup(log[j]) /\ log[j].res = "hit"}}

InResult(k) ==
    \E i \in DOMAIN result_df :
        /\ result_df[i].year = k[1] /\ result_df[i].quarter = k[2]
        /\ result_df[i].fs = k[3] /\ result_df[i].account_id = k[4]

PlanYears == 2021..2026
PlanMonths == 0..13
\* YYYYMM texts, and one text of five digits
YearMonths == {100 * y + m : y \in PlanYears, m \in PlanMonths} \cup {20259}

\* year_month.isdigit() and len(year_month) == 6
accepts_year_month(n) == n >= 100000 /\ n <= 999999

InitPlan ==
    /\ InitRun
    /\ u_pc = "form"
    /\ u_in \in YearMonths
    /\ u_out = <<>>

\* the form is submitted: the check of the text, then the planning loop of
\* collect_financials(API_KEY, corp_code, int(year_month))
Submit ==
    /\ u_pc = "form"
    /\ IF accepts_year_month(u_in)
       THEN /\ u_pc' = "planned"
            /\ u_out' = quarters_to_collect(u_in)
       ELSE /\ u_pc' = "rejected"
            /\ u_out' = <<>>
    /\ UNCHANGED u_in
    /\ UNCHANGED run

NextPlan == Submit

SpecPlan == InitPlan /\ [][NextPlan]_vars

\* C13: for a target year Y and month m in 1..12, with q = ceil(m / 3), the
\* planned list runs from (Y - 4, 1) to (Y, q) through consecutive quarters,
\* strictly ascending and without duplicates, 16 + q entries; for 202509 it
\* is (2021, 1) .. (2025, 3), 19 entries.
C13_PeriodWindow ==
    (u_pc = "planned" /\ u_in % 100 \in 1..12) =>
        LET Y == u_in \div 100
            q == ((u_in % 100) + 2) \div 3
            n == Len(u_out)
        IN  /\ n = 16 + q
            /\ u_out[1] = <<Y - 4, 1>>
            /\ u_out[n] = <<Y, q>>
            /\ \A i \in 1..n : u_out[i][2] \in 1..4
            /\ \A i \in 1..(n - 1) :
                  Ord(u_out[i + 1][1], u_out[i + 1][2]) = Ord(u_out[i][1], u_out[i][2]) + 1
            /\ (u_in = 202509) =>
                  /\ n = 19
                  /\ u_out[1] = <<2021, 1>>
                  /\ u_out[19] = <<2025, 3>>

C13_Witness ==
    /\ u_pc = "planned"
    /\ u_in = 202509
    /\ Len(u_out) = 19

\* C14: a target whose month is outside 1..12 gets no period list.
C14_InvalidMonthFails ==
    (u_pc # "form" /\ u_in % 100 \notin 1..12) => (u_pc = "rejected" /\ u_out = <<>>)

(***************************************************************************)
(* save_financial_data_to_db on its own: a table, a DataFrame and a key    *)
(* are drawn, and the DataFrame is saved twice under the key.              *)
(***************************************************************************)
\* the same statement, filed again with other amounts
PayloadRestated ==
    << RawRow("ifrs-full_Revenue", "Revenue", TRUE, 120),
       RawRow("dart_OperatingIncomeLoss", "OperatingIncome", TRUE, 12) >>
\* a list that carries the revenue account in two of its statements
PayloadTwice ==
    << RawRow("ifrs-full_Revenue", "Revenue", TRUE, 100),
       RawRow("ifrs-full_Revenue", "Revenue(CIS)", TRUE, 70) >>
\* a list with an amount that is no number
PayloadNull ==
    << RawRow("ifrs-full_Revenue", "Revenue", FALSE, 0),
       RawRow("dart_OperatingIncomeLoss", "OperatingIncome", TRUE, 10) >>

SavePayloads == Payloads \cup {PayloadRestated, PayloadTwice, PayloadNull}

\* what get_financial_data hands to the save: a DataFrame of a list, or None
SaveFrames ==
    {get_financial_data([raises |-> FALSE, status |-> "000", list |-> p]) : p \in SavePayloads}
    \cup {None}

SaveKeys ==
    { [year |-> 2025, quarter |-> 4, report_code |-> report_code(4), fs_div |-> "CFS"],
      [year |-> 2025, quarter |-> 3, report_code |-> report_code(3), fs_div |-> "OFS"] }

\* the table before: empty, or as one earlier save of this or of another
\* session left it
SaveTables ==
    {save_financial_data_to_db({}, df, k.year, k.quarter, k.report_code, k.fs_div) :
        df \in SaveFrames, k \in SaveKeys}

InitSave ==
    /\ InitRun
    /\ u_pc = "input"
    /\ u_in \in [db : SaveTables, df : SaveFrames, key : SaveKeys]
    /\ u_out = <<>>

\* the first call
Save ==
    /\ u_pc = "input"
    /\ u_out' = << save_financial_data_to_db(u_in.db, u_in.df, u_in.key.year,
                       u_in.key.quarter, u_in.key.report_code, u_in.key.fs_div) >>
    /\ u_pc' = "saved"
    /\ UNCHANGED u_in
    /\ UNCHANGED run

\* the second call, with the same arguments, on the table the first one left
SaveAgain ==
    /\ u_pc = "saved"
    /\ u_out' = Append(u_out,
                    save_financial_data_to_db(u_out[1], u_in.df, u_in.key.year,
                        u_in.key.quarter, u_in.key.report_code, u_in.key.fs_div))
    /\ u_pc' = "saved again"
    /\ UNCHANGED u_in
    /\ UNCHANGED run

NextSave ==
    \/ Save
    \/ SaveAgain

SpecSave == InitSave /\ [][NextSave]_vars

PrimaryKey(r) == <<r.year, r.report_code, r.fs_div, r.account_id>>

\* C15: after the same DataFrame was saved twice under the same key, the
\* table is the one the first save left; it holds one row per primary key,
\* and an account the DataFrame lists once is stored under the key with the
\* label and the amount of the DataFrame.
C15_IdempotentUpsert ==
    u_pc = "saved again" =>
        /\ u_out[2] = u_out[1]
        /\ \A r \in u_out[2] : \A o \in u_out[2] : PrimaryKey(r) = PrimaryKey(o) => r = o
        /\ \A i \in DOMAIN u_in.df.rows :
              LET row == u_in.df.rows[i]
              IN  (/\ row.account_id \in key_items
                   /\ \A j \in DOMAIN u_in.df.rows :
                         u_in.df.rows[j].account_id = row.account_id => j = i)
                  => \E c \in RowsOf(u_out[2], u_in.key.year, u_in.key.report_code,
                                     u_in.key.fs_div) :
                        /\ c.account_id = row.account_id
                        /\ c.account_nm = row.account_nm
                        /\ c.quarter = u_in.key.quarter
                        /\ c.thstrm_amount = IF row.thstrm_amount.nan THEN 0
                                             ELSE row.thstrm_amount.v

\* the key held rows with other amounts and the first save replaced them
C15_Witness ==
    /\ u_pc = "saved again"
    /\ RowsOf(u_in.db, u_in.key.year, u_in.key.report_code, u_in.key.fs_div) # {}
    /\ u_out[1] # u_in.db
    /\ Cardinality(u_out[2]) = Cardinality(u_in.db)

(***************************************************************************)
(* The runs against a remote whose statements are filed again with other   *)
(* amounts between two requests.                                           *)
(***************************************************************************)
ResponsesRestated ==
    { [raises |-> TRUE,  status |-> "", list |-> <<>>],
      [raises |-> FALSE, status |-> "000", list |-> PayloadFull],
      [raises |-> FALSE, status |-> "000", list |-> PayloadRestated] }

NextRestated ==
    \/ \E ym \in Targets : Start(ym)
    \/ ScanPeriod
    \/ \E res \in ResponsesRestated : ProbeFetch(res)
    \/ PrepareTasks
    \/ StartTask
    \/ \E i \in DOMAIN future : \E res \in ResponsesRestated : TaskDone(i, res)
    \/ Finish

SpecRestated == Init /\ [][NextRestated]_vars

C17_TrackedOnly ==
    /\ \A r \in cached_financials : r.account_id \in key_items
    /\ \A i \in DOMAIN result_df : result_df[i].account_id \in key_items

\* a fetched dataset carried another account as well; tracked rows of it
\* were stored and returned
C17_Witness ==
    /\ pc = "done"
    /\ result_df # <<>>
    /\ cached_financials # db0
    /\ \E k \in DOMAIN all_data :
          \E j \in DOMAIN all_data[k].rows :
              all_data[k].rows[j].account_id \notin key_items

(***************************************************************************)
(* process_dataframe_for_view.  The column 항목 is followed by the          *)
(* account_id it is mapped from; a displayed number is a fraction.         *)
(***************************************************************************)
Frac(n, d) == [num |-> n, den |-> d]

\* the exception of pivot_df['매출액'] / pivot_df['영업이익'] on a missing column
KeyError == [ok |-> FALSE, rows |-> <<>>]

\* aggfunc='first': the first amount of the group that is not NaN
FirstAmount(rows, year, quarter, item) ==
    LET g == SelectSeq(rows, LAMBDA r : /\ r.year = year /\ r.quarter = quarter
                                        /\ r.account_id = item
                                        /\ ~r.thstrm_amount.nan)
    IN  IF g = <<>> THEN NaN ELSE g[1].thstrm_amount

RECURSIVE SortedSlots(_)
\* sort_values(by=['년도', '분기'], ascending=[True, True])
SortedSlots(S) ==
    IF S = {} THEN <<>>
    ELSE LET m == CHOOSE x \in S : \A y \in S : Ord(x[1], x[2]) <= Ord(y[1], y[2])
         IN  <<m>> \o SortedSlots(S \ {m})

\* pivot_table(index=['년도', '분기'], columns='항목', values='thstrm_amount',
\* aggfunc='first') drops the groups whose value is NaN (dropna=True), so a
\* slot, or a column, all of whose groups are NaN is not in the table
process_dataframe_for_view(rows) ==
    IF rows = <<>> THEN DataFrame(<<>>)
    ELSE LET groups == {g \in {<<rows[i].year, rows[i].quarter, rows[i].account_id>> :
                                  i \in DOMAIN rows} :
                          ~FirstAmount(rows, g[1], g[2], g[3]).nan}
             columns == {g[3] : g \in groups}
             index == SortedSlots({<<g[1], g[2]>> : g \in groups})
             \* the cell of the table, after fillna(0)
             cell(slot, item) ==
                 IF <<slot[1], slot[2], item>> \in groups
                 THEN FirstAmount(rows, slot[1], slot[2], item).v
                 ELSE 0
         IN  IF ~(key_items \subseteq columns) THEN KeyError
             ELSE DataFrame(
                    [i \in DOMAIN index |->
                       LET rev == cell(index[i], "ifrs-full_Revenue")
                           op == cell(index[i], "dart_OperatingIncomeLoss")
                       IN  [period |-> index[i],
                            revenue |-> Frac(rev, 1000000),
                            operating_income |-> Frac(op, 1000000),
                            margin |-> IF rev # 0 THEN Frac(op * 100, rev)
                                       ELSE Frac(0, 1)]])

(***************************************************************************)
(* The end of collect_financials and the view, on drawn lists of           *)
(* datasets: the periods of one year and the Annual report of the year     *)
(* before, each one absent, or present under one variant or under both.    *)
(***************************************************************************)
\* filed revenue of quarters 1, 2, 3 and of the Annual report, two entities
FiledRevenue == << <<100, 120, 90, 400>>, <<50, 60, 80, 300>> >>

PeriodOptions == {"absent", "CFS", "OFS", "both"}
\* what the lists of the remote lack: nothing; the operating income rows;
\* the operating income row of the half-year report; well-formed amounts in
\* the half-year report; a well-formed revenue there
Defects == {"none", "no operating income", "no half-year operating income",
            "null amounts", "null revenue"}

\* a dataset as get_financial_data returned it and the task loop labelled it
FiledDataset(year, quarter, fs, entity, defect) ==
    LET revenue == IF fs = "CFS" THEN FiledRevenue[entity][quarter]
                   ELSE FiledRevenue[entity][quarter] \div 2
        null_rev == quarter = 2 /\ defect \in {"null amounts", "null revenue"}
        null_op == quarter = 2 /\ defect = "null amounts"
        list == << RawRow("ifrs-full_Revenue", "Revenue", ~null_rev, revenue) >>
                \o (IF \/ defect = "no operating income"
                       \/ (quarter = 2 /\ defect = "no half-year operating income")
                    THEN <<>>
                    ELSE << RawRow("dart_OperatingIncomeLoss", "OperatingIncome",
                                   ~null_op, revenue \div 10) >>)
                \o << RawRow("ifrs-full_Assets", "Assets", TRUE, 5) >>
    IN  Dataset(get_financial_data([raises |-> FALSE, status |-> "000", list |-> list]),
                fs, year, quarter)

DatasetsOfPeriod(year, quarter, option, entity, defect) ==
    IF option = "absent" THEN <<>>
    ELSE IF option = "both"
         THEN << FiledDataset(year, quarter, "CFS", entity, defect),
                 FiledDataset(year, quarter, "OFS", entity, defect) >>
         ELSE << FiledDataset(year, quarter, option, entity, defect) >>

CollectedLists ==
    { (IF before THEN << FiledDataset(2024, 4, "CFS", entity, "none") >> ELSE <<>>)
      \o DatasetsOfPeriod(2025, 1, c[1], entity, defect)
      \o DatasetsOfPeriod(2025, 2, c[2], entity, defect)
      \o DatasetsOfPeriod(2025, 3, c[3], entity, defect)
      \o DatasetsOfPeriod(2025, 4, c[4], entity, defect) :
        before \in BOOLEAN, c \in [1..4 -> PeriodOptions],
        entity \in DOMAIN FiledRevenue, defect \in Defects }

\* the rows of the combined frame that the isin filter keeps
Filtered(datasets) == SelectSeq(Concat(datasets), LAMBDA r : r.account_id \in key_items)

InitView ==
    /\ InitRun
    /\ u_pc = "collected"
    /\ u_in \in CollectedLists \ {<<>>}
    /\ u_out = <<>>

\* collect_financials after the session block: concat, filter, adjust_q4_values
Normalize ==
    /\ u_pc = "collected"
    /\ u_out' = [raw_df |-> ResultOf(u_in)]
    /\ u_pc' = "normalized"
    /\ UNCHANGED u_in
    /\ UNCHANGED run

\* the search handler: view_df = process_dataframe_for_view(raw_df)
View ==
    /\ u_pc = "normalized"
    /\ u_out.raw_df # <<>>
    /\ u_out' = [raw_df |-> u_out.raw_df,
                 view_df |-> process_dataframe_for_view(u_out.raw_df)]
    /\ u_pc' = "viewed"
    /\ UNCHANGED u_in
    /\ UNCHANGED run

NextView ==
    \/ Normalize
    \/ View

SpecView == InitView /\ [][NextView]_vars

\* the filed amounts of quarters 1..3 of a row's year and account, summed
FiledQ1Q3(collected, row) ==
    SumAmounts(SelectSeq(collected, LAMBDA r : /\ r.year = row.year
                                               /\ r.account_id = row.account_id
                                               /\ r.quarter \in {1, 2, 3}))

\* C18: when the run has returned, every quarter-4 row with a filed amount A
\* has, after normalisation, the amount A minus the sum of the filed amounts
\* of quarters 1..3 of its year and account in the collected set, whatever
\* the variants of the rows are.
C18_Q4Derivation ==
    (pc = "done" /\ result_df # <<>>) =>
        LET collected == Filtered(all_data)
        IN  \A i \in DOMAIN collected :
                (collected[i].quarter = 4 /\ ~collected[i].thstrm_amount.nan) =>
                    result_df[i].thstrm_amount =
                        Num(collected[i].thstrm_amount.v - FiledQ1Q3(collected, collected[i]))

\* C19: normalisation returns the rows of the collected set in their order;
\* a row of quarter 1, 2 or 3 is returned as it was filed, and a row of
\* quarter 4 differs from the filed one in its amount at most.
C19_Q1Q3Frame ==
    u_pc \in {"normalized", "viewed"} =>
        LET collected == Filtered(u_in)
            raw_df == u_out.raw_df
        IN  /\ Len(raw_df) = Len(collected)
            /\ \A i \in DOMAIN collected :
                  /\ collected[i].quarter \in {1, 2, 3} => raw_df[i] = collected[i]
                  /\ raw_df[i] = [collected[i] EXCEPT !.thstrm_amount = raw_df[i].thstrm_amount]

\* quarters 1, 2 and 3 are in the set and a quarter-4 amount was changed
C19_Witness ==
    /\ u_pc = "normalized"
    /\ \A q \in {1, 2, 3} :
          \E i \in DOMAIN u_out.raw_df : u_out.raw_df[i].quarter = q
    /\ \E i \in DOMAIN u_out.raw_df :
          /\ u_out.raw_df[i].quarter = 4
          /\ u_out.raw_df[i] # Filtered(u_in)[i]

\* the (year, quarter) slots that have a row in a set of rows
SlotsOf(rows) == {<<rows[i].year, rows[i].quarter>> : i \in DOMAIN rows}

\* C20: the view of a collected set has one entry per (year, quarter) of the
\* set, no other entry, and its entries ascend strictly by (year, quarter).
C20_OutputShape ==
    u_pc = "viewed" =>
        LET view_df == u_out.view_df
        IN  /\ view_df.ok
            /\ {view_df.rows[i].period : i \in DOMAIN view_df.rows} = SlotsOf(u_out.raw_df)
            /\ \A i \in DOMAIN view_df.rows : \A j \in DOMAIN view_df.rows :
                  i < j => Ord(view_df.rows[i].period[1], view_df.rows[i].period[2])
                           < Ord(view_df.rows[j].period[1], view_df.rows[j].period[2])

\* a row of the account exists for the slot in the rows
HasItem(rows, slot, item) ==
    \E i \in DOMAIN rows : /\ rows[i].year = slot[1] /\ rows[i].quarter = slot[2]
                           /\ rows[i].account_id = item

\* C21: the view of a non-empty collected set is produced, and an entry of
\* it has revenue 0 when the set has no revenue row for its slot and
\* operating income 0 when the set has no operating-income row for its slot.
C21_ZeroDefault ==
    u_pc = "viewed" =>
        LET view_df == u_out.view_df
        IN  /\ view_df.ok
            /\ \A i \in DOMAIN view_df.rows :
                  /\ ~HasItem(u_out.raw_df, view_df.rows[i].period, "ifrs-full_Revenue")
                        => view_df.rows[i].revenue.num = 0
                  /\ ~HasItem(u_out.raw_df, view_df.rows[i].period, "dart_OperatingIncomeLoss")
                        => view_df.rows[i].operating_income.num = 0

(***************************************************************************)
(* The bulk phase with more tasks than workers: the run of an entity       *)
(* without any filing, from the submit of the tasks on.  The cache was     *)
(* empty, every probe got no data, and every request of the pool ends      *)
(* (timeout=10) without data.                                              *)
(***************************************************************************)
\* the run follows the PoolPeriods most recent periods of the planned list
PoolPeriods == 6

PoolTarget == CHOOSE ym \in Targets : TRUE

\* missing_tasks when the n most recent planned periods are all missing
MissingOf(n) ==
    LET all == quarters_to_collect(PoolTarget)
    IN  [i \in 1..n |->
            [year |-> all[Len(all) - n + i][1],
             quarter |-> all[Len(all) - n + i][2],
             report_code |-> report_code(all[Len(all) - n + i][2])]]

\* the lookups of the DB loop and the probes, all without a result
HistoryOf(n) ==
    [k \in 1..(2 * n) |->
        Ev("db", MissingOf(n)[(k + 1) \div 2].year, MissingOf(n)[(k + 1) \div 2].quarter,
           fs_divs[2 - (k % 2)], "miss")]
    \o [k \in 1..(2 * n) |->
        LET t == sorted_missing(MissingOf(n))[(k + 1) \div 2]
        IN  Ev("probe", t.year, t.quarter, fs_divs[2 - (k % 2)], "none")]

\* the re-check and the task list, with the variant unresolved
PreparedOf(n) ==
    PrepareLoop({}, fs_divs, MissingOf(n),
                [all_data |-> <<>>, api_tasks |-> <<>>, log |-> HistoryOf(n)])

PoolMissing == MissingOf(PoolPeriods)

PoolPrepared == PreparedOf(PoolPeriods)

InitPool ==
    /\ cached_financials = {}
    /\ processing_status = NoStatus
    /\ pc = "bulk"
    /\ year_month = PoolTarget
    /\ all_data = <<>>
    /\ missing_tasks = PoolMissing
    /\ determined_fs_divs = fs_divs
    /\ idx = 1
    /\ probe_fs = "CFS"
    /\ api_tasks = PoolPrepared.api_tasks
    /\ future = [i \in DOMAIN PoolPrepared.api_tasks |-> "queued"]
    /\ result_df = <<>>
    /\ log = PoolPrepared.log
    /\ outcome = [i \in DOMAIN PoolPrepared.api_tasks |-> "pending"]
    /\ db0 = {}
    /\ watch = NoKey
    /\ got = {}
    /\ u_pc = "off"
    /\ u_in = <<>>
    /\ u_out = <<>>

PoolResponses == {res \in Responses : Answer(res) = "none" /\ res.list = <<>>}

PoolTaskDone == \E i \in DOMAIN future : \E res \in PoolResponses : TaskDone(i, res)

NextPool ==
    \/ StartTask
    \/ PoolTaskDone
    \/ Finish

\* a free worker takes a queued task; a request ends within its timeout
SpecPool ==
    /\ InitPool
    /\ [][NextPool]_vars
    /\ WF_vars(StartTask)
    /\ WF_vars(PoolTaskDone)
    /\ WF_vars(Finish)

\* the requests sent for a task of the bulk list
SentFor(i) ==
    {j \in DOMAIN log : /\ log[j].op = "task"
                        /\ Key(log[j]) = <<api_tasks[i].year, api_tasks[i].quarter,
                                           api_tasks[i].fs_code>>}

\* C22: at every instant of the bulk phase at most 10 tasks are in flight and
\* no task has been sent more than once, a task that is not in flight or
\* done has not been sent; and in the end every submitted task has been
\* executed, exactly once.
C22_BoundedConcurrency ==
    /\ [](/\ Cardinality(Running) <= 10
          /\ \A i \in DOMAIN api_tasks :
                /\ Cardinality(SentFor(i)) <= 1
                /\ future[i] = "queued" <=> SentFor(i) = {})
    /\ <>(/\ pc = "done"
          /\ \A i \in DOMAIN api_tasks :
                future[i] = "done" /\ Cardinality(SentFor(i)) = 1)

\* the pool is full and a task waits
C22_Witness ==
    /\ pc = "bulk"
    /\ Cardinality(Running) = 10
    /\ Queued # {}

\* probes of the log whose outcome is not known
ProbesInFlight == {i \in Fetches : log[i].op = "probe" /\ log[i].res \notin {"none", "data"}}

\* C23: at most one probe is without a known outcome, and it is the last
\* probe that started; no bulk task starts before the last probe of the
\* run, and while the run is probing no task exists or is in flight.
C23_SequentialProbing ==
    /\ Cardinality(ProbesInFlight) <= 1
    /\ \A i \in ProbesInFlight : \A j \in Fetches : log[j].op = "probe" => j <= i
    /\ \A i \in Fetches : \A j \in Fetches :
          (log[i].op = "task" /\ log[j].op = "probe") => j < i
    /\ pc = "probe" => (api_tasks = <<>> /\ Running = {})

\* every planned period was probed under both variants before the tasks ran
C23_Witness ==
    /\ pc = "done"
    /\ Len(ProbeEvents) = 2 * Len(Window(year_month))
    /\ Len(ProbeEvents) > 2
    /\ \E i \in Fetches : log[i].op = "task"

(***************************************************************************)
(* The bulk phase against a remote whose answer to a request is fixed per  *)
(* key: the answers are drawn at the start (u_in) and the tasks complete   *)
(* in any order.  The variant is unresolved: the probes had failed.        *)
(***************************************************************************)
\* the Separate statement of a period, with other amounts than PayloadFull
PayloadSeparate ==
    << RawRow("ifrs-full_Revenue", "Revenue", TRUE, 60),
       RawRow("dart_OperatingIncomeLoss", "OperatingIncome", TRUE, 6) >>

OrderTasks == PreparedOf(MaxPeriods).api_tasks

TaskKey(t) == <<t.year, t.quarter, t.fs_code>>

OrderKeys == {TaskKey(OrderTasks[i]) : i \in DOMAIN OrderTasks}

\* the response to the request of a task under the drawn answers
ResponseTo(answers, t) ==
    IF answers[TaskKey(t)] = "none"
    THEN [raises |-> TRUE, status |-> "", list |-> <<>>]
    ELSE [raises |-> FALSE, status |-> "000",
          list |-> IF t.fs_code = "CFS" THEN PayloadFull ELSE PayloadSeparate]

InitOrder ==
    /\ cached_financials = {}
    /\ processing_status = NoStatus
    /\ pc = "bulk"
    /\ year_month = PoolTarget
    /\ all_data = <<>>
    /\ missing_tasks = MissingOf(MaxPeriods)
    /\ determined_fs_divs = fs_divs
    /\ idx = 1
    /\ probe_fs = "CFS"
    /\ api_tasks = OrderTasks
    /\ future = [i \in DOMAIN OrderTasks |-> "queued"]
    /\ result_df = <<>>
    /\ log = PreparedOf(MaxPeriods).log
    /\ outcome = [i \in DOMAIN OrderTasks |-> "pending"]
    /\ db0 = {}
    /\ watch = NoKey
    /\ got = {}
    /\ u_pc = "off"
    /\ u_in \in [OrderKeys -> {"none", "data"}]
    /\ u_out = <<>>

OrderTaskDone == \E i \in DOMAIN future : TaskDone(i, ResponseTo(u_in, api_tasks[i]))

NextOrder ==
    \/ StartTask
    \/ OrderTaskDone
    \/ Finish

SpecOrder == InitOrder /\ [][NextOrder]_vars

RECURSIVE InListOrder(_, _)
\* the datasets of the tasks that get data, had they completed in list order
InListOrder(answers, tasks) ==
    IF tasks = <<>> THEN <<>>
    ELSE LET t == Head(tasks)
             df == get_financial_data(ResponseTo(answers, t))
         IN  (IF df.ok THEN << Dataset(df, t.fs_code, t.year, t.quarter) >> ELSE <<>>)
             \o InListOrder(answers, Tail(tasks))

RECURSIVE SavedInListOrder(_, _, _)
\* the cache after the saves of those tasks in list order
SavedInListOrder(db, answers, tasks) ==
    IF tasks = <<>> THEN db
    ELSE LET t == Head(tasks)
         IN  SavedInListOrder(
                save_financial_data_to_db(db, get_financial_data(ResponseTo(answers, t)),
                                          t.year, t.quarter, t.report_code, t.fs_code),
                answers, Tail(tasks))

\* C24: with the cache and the answer to every request fixed, the run ends,
\* whatever the order in which the tasks completed, with the cache and the
\* view that the completion in list order gives; no two tasks of the run
\* have the same cache key.
C24_OrderIndependence ==
    /\ \A i \in DOMAIN api_tasks : \A j \in DOMAIN api_tasks :
          TaskKey(api_tasks[i]) = TaskKey(api_tasks[j]) => i = j
    /\ pc = "done" =>
          /\ cached_financials = SavedInListOrder(db0, u_in, api_tasks)
          /\ process_dataframe_for_view(result_df)
                = process_dataframe_for_view(ResultOf(InListOrder(u_in, api_tasks)))

(***************************************************************************)
(* search_company_code on its own.  A name is a sequence of letters, a     *)
(* corp_code the sequence of its eight digits; codes is the dict           *)
(* corp_name -> corp_code that get_company_codes returns.                  *)
(***************************************************************************)
\* longest name, and largest directory, that is drawn
MaxNameLen == 2
MaxNames == 3

Letters == {"a", "b"}
NameSpace == UNION {[1..n -> Letters] : n \in 1..MaxNameLen}

\* the corp_code the directory holds for a name (no two names share one)
CorpCodeOf(name) ==
    <<0, 0, 1, 2, 6>> \o [i \in 1..3 |-> IF i > Len(name) THEN 0
                                         ELSE IF name[i] = "a" THEN 1 ELSE 2]

Directories ==
    {[name \in S |-> CorpCodeOf(name)] :
        S \in {T \in SUBSET NameSpace : Cardinality(T) <= MaxNames}}

\* company_name in name, on str
IsSubstring(s, name) ==
    \E k \in 0..(Len(name) - Len(s)) : SubSeq(name, k + 1, k + Len(s)) = s

\* str.zfill(width)
zfill(digits, width) ==
    IF Len(digits) >= width THEN digits
    ELSE [i \in 1..(width - Len(digits)) |-> 0] \o digits

\* search_company_code returning None
NoCode == <<>>

\* search_company_code without step 1 (the exact match)
search_company_code_substring_only(codes, company_name) ==
    LET candidates == {name \in DOMAIN codes : IsSubstring(company_name, name)}
    IN  IF DOMAIN codes = {} THEN NoCode
        ELSE IF Cardinality(candidates) = 1
             THEN zfill(codes[CHOOSE name \in candidates : TRUE], 8)
             ELSE NoCode

search_company_code(codes, company_name) ==
    LET candidates == {name \in DOMAIN codes : IsSubstring(company_name, name)}
    IN  IF DOMAIN codes = {} THEN NoCode
        ELSE IF company_name \in DOMAIN codes THEN zfill(codes[company_name], 8)
        ELSE IF Cardinality(candidates) = 1
             THEN zfill(codes[CHOOSE name \in candidates : TRUE], 8)
             ELSE NoCode

InitSearch ==
    /\ InitRun
    /\ u_pc = "query"
    /\ u_in \in [codes : Directories, company_name : NameSpace]
    /\ u_out = <<>>

Search ==
    /\ u_pc = "query"
    /\ u_out' = search_company_code(u_in.codes, u_in.company_name)
    /\ u_pc' = "searched"
    /\ UNCHANGED u_in
    /\ UNCHANGED run

NextSearch == Search

SpecSearch == InitSearch /\ [][NextSearch]_vars

\* the names of the directory that contain the query
Containing == {name \in DOMAIN u_in.codes : IsSubstring(u_in.company_name, name)}

\* C25: the search returns the code of the name that equals the query when
\* the directory has one, whatever other names contain the query; otherwise
\* the code of the only name that contains the query; and no code when more
\* than one name contains it or none does.
C25_NameResolution ==
    u_pc = "searched" =>
        IF u_in.company_name \in DOMAIN u_in.codes
        THEN u_out = u_in.codes[u_in.company_name]
        ELSE IF \E name \in Containing : Containing = {name}
             THEN \A name \in Containing : u_out = u_in.codes[name]
             ELSE u_out = NoCode

\* a name equals the query and another name contains it
C25_Witness ==
    /\ u_pc = "searched"
    /\ u_in.company_name \in DOMAIN u_in.codes
    /\ Cardinality(Containing) > 1
    /\ u_out # NoCode

(***************************************************************************)
(* The runs over a database that may fail: any read may raise (the lookup  *)
(* then returns None) and any write may raise (the save then reports the   *)
(* error and returns).                                                     *)
(***************************************************************************)
NextFaults ==
    \/ \E ym \in Targets : Start(ym)
    \/ \E failing \in SUBSET Range(fs_divs) : ScanPeriodSeeing(failing)
    \/ \E res \in Responses : \E written \in BOOLEAN : ProbeFetchSaving(res, written)
    \/ \E failing \in SUBSET Range(fs_divs) : PrepareTasksSeeing(failing)
    \/ StartTask
    \/ \E i \in DOMAIN future : \E res \in Responses : \E written \in BOOLEAN :
          TaskDoneSaving(i, res, written)
    \/ Finish

SpecFaults == Init /\ [][NextFaults]_vars

\* C26: over a database whose reads and writes may fail, when the run has
\* returned, every tracked-account item that a probe or a bulk task of the
\* run fetched is in the result
C26_FaultsContained ==
    pc = "done" => \A k \in got : InResult(k)

\* C27: when the run has returned, all items of the result carry one
\* variant
C27_SingleVariant ==
    pc = "done" =>
        \A i, j \in DOMAIN result_df : result_df[i].fs = result_df[j].fs

\* C28: when the run has returned, processing_status holds the run's base
\* period, with SUCCESS when the result is non-empty and NOT_FOUND when it is
\* empty
C28_StatusRecorded ==
    pc = "done" =>
        /\ processing_status.last_base_period = year_month
        /\ processing_status.status =
              IF result_df # <<>> THEN "SUCCESS" ELSE "NOT_FOUND"

(***************************************************************************)
(* Two calls in a row for the same target, the first on an empty cache,    *)
(* with amounts that are no numbers among the answers. u_out keeps what    *)
(* the first call returned.                                                *)
(***************************************************************************)
ResponsesNull ==
    { [raises |-> TRUE,  status |-> "", list |-> <<>>],
      [raises |-> FALSE, status |-> "000", list |-> PayloadFull],
      [raises |-> FALSE, status |-> "000", list |-> PayloadNull] }

InitTwice == InitRun /\ u_pc = "first" /\ u_in = <<>> /\ u_out = <<>>

First(ym) ==
    /\ pc = "idle"
    /\ StartRun(ym, watch)

Again ==
    /\ pc = "done"
    /\ u_pc = "first"
    /\ StartRunLocals(year_month, watch)
    /\ u_pc' = "second"
    /\ u_out' = result_df
    /\ u_in' = u_in

NextTwice ==
    \/ \E ym \in Targets : First(ym)
    \/ Again
    \/ ScanPeriod
    \/ \E res \in ResponsesNull : ProbeFetch(res)
    \/ PrepareTasks
    \/ StartTask
    \/ \E i \in DOMAIN future : \E res \in ResponsesNull : TaskDone(i, res)
    \/ Finish

SpecTwice == InitTwice /\ [][NextTwice]_vars

\* the amounts of a returned frame, per (year, quarter, account)
Amounts(rows) ==
    {<<rows[i].year, rows[i].quarter, rows[i].account_id, rows[i].thstrm_amount>> :
        i \in DOMAIN rows}

\* C29: when the second call has returned and has taken everything from the
\* cache (it made no request), it returned the same amounts as the first
\* call for every (year, quarter, account)
C29_FreshCachedEquivalence ==
    (pc = "done" /\ u_pc = "second" /\ Fetches = {}) =>
        Amounts(result_df) = Amounts(u_out)

\* the step that enters collect_financials
RunStarts == pc \in {"idle", "done"} /\ pc' = "scan"

\* C30: a run starts with both candidate variants; every later step of the
\* run either leaves the candidates as they are or replaces both candidates
\* by one of them, so a single candidate stays what it is; the candidates
\* of a run are never empty
C30_CandidatesMonotone ==
    /\ [](pc # "idle" => determined_fs_divs # <<>>)
    /\ [][IF RunStarts
          THEN determined_fs_divs' = fs_divs
          ELSE \/ determined_fs_divs' = determined_fs_divs
               \/ /\ determined_fs_divs = fs_divs
                  /\ \E fs \in Range(fs_divs) : determined_fs_divs' = <<fs>>]_vars

\* a run was narrowed to the separate variant by a probe and went through
\* its bulk phase with that candidate
C30_Witness ==
    /\ pc = "done"
    /\ determined_fs_divs = <<"OFS">>
    /\ api_tasks # <<>>
    /\ \A i \in DOMAIN future : future[i] = "done"

\* the lookups of the run that found their variant in the cache
CacheHits == {i \in DOMAIN log : IsLookup(log[i]) /\ log[i].res = "hit"}

\* both variants of a period were in the cache when the run started
BothCached(year, quarter) ==
    \A fs \in Range(fs_divs) : RowsOf(db0, year, report_code(quarter), fs) # {}

\* C31: all_data never holds two datasets of one (year, quarter, variant);
\* the cache lookups of a run find at most one variant per period, and the
\* consolidated one when the cache held both variants of the period
C31_NoDuplicateDatasets ==
    /\ \A i, j \in DOMAIN all_data :
          (/\ all_data[i].year = all_data[j].year
           /\ all_data[i].quarter = all_data[j].quarter
           /\ all_data[i].fs = all_data[j].fs) => i = j
    /\ \A i, j \in CacheHits :
          (log[i].year = log[j].year /\ log[i].quarter = log[j].quarter) => i = j
    /\ \A i \in CacheHits :
          BothCached(log[i].year, log[i].quarter) => log[i].fs = "CFS"

\* a run has returned that found both variants of a period in the cache and
\* took one of them, next to a dataset that a bulk task fetched
C31_Witness ==
    /\ pc = "done"
    /\ \E i \in CacheHits : BothCached(log[i].year, log[i].quarter)
    /\ \E i \in DOMAIN api_tasks : outcome[i] = "data"
    /\ Len(all_data) > 1

(***************************************************************************)
(* The calls of collect_financials with the period-expansion loop taken    *)
(* one iteration at a time, for targets with months inside and outside     *)
(* 1..12.  u_in is the target, u_out the locals of the loop.               *)
(***************************************************************************)
\* the loop counter curr_y is followed up to this year
MaxPlanYear == 2030

TermTargets == {202511, 202500, 202513}

NoPlan == [quarters_to_collect |-> <<>>, curr_y |-> 0, curr_q |-> 0]

InitTerm == InitRun /\ u_pc = "call" /\ u_in \in TermTargets /\ u_out = NoPlan

\* curr_y, curr_q = start_year, 1
PlanStart ==
    /\ u_pc = "call"
    /\ u_pc' = "plan"
    /\ u_out' = [quarters_to_collect |-> <<>>,
                 curr_y |-> get_quarter_info(u_in)[2] - WindowYears,
                 curr_q |-> 1]
    /\ UNCHANGED u_in
    /\ UNCHANGED run

\* the iteration below with the year turning after the third quarter
\* (if curr_q > 3)
PlanStepThreeQuarters ==
    /\ u_pc = "plan"
    /\ u_out.curr_y <= MaxPlanYear
    /\ LET qi == get_quarter_info(u_in)
           end_y == qi[2]
           end_q == IF qi[3] = 12 THEN 4 ELSE qi[1]
           list == Append(u_out.quarters_to_collect, <<u_out.curr_y, u_out.curr_q>>)
       IN  IF u_out.curr_y = end_y /\ u_out.curr_q = end_q
           THEN /\ u_pc' = "planned"
                /\ u_out' = [u_out EXCEPT !.quarters_to_collect = list]
           ELSE /\ u_pc' = "plan"
                /\ u_out' = IF u_out.curr_q + 1 > 3
                            THEN [quarters_to_collect |-> list,
                                  curr_y |-> u_out.curr_y + 1, curr_q |-> 1]
                            ELSE [quarters_to_collect |-> list,
                                  curr_y |-> u_out.curr_y, curr_q |-> u_out.curr_q + 1]
    /\ UNCHANGED u_in
    /\ UNCHANGED run

\* one iteration of the while True loop
PlanStep ==
    /\ u_pc = "plan"
    /\ u_out.curr_y <= MaxPlanYear
    /\ LET qi == get_quarter_info(u_in)
           end_y == qi[2]
           end_q == IF qi[3] = 12 THEN 4 ELSE qi[1]
           list == Append(u_out.quarters_to_collect, <<u_out.curr_y, u_out.curr_q>>)
       IN  IF u_out.curr_y = end_y /\ u_out.curr_q = end_q
           THEN /\ u_pc' = "planned"
                /\ u_out' = [u_out EXCEPT !.quarters_to_collect = list]
           ELSE /\ u_pc' = "plan"
                /\ u_out' = IF u_out.curr_q + 1 > 4
                            THEN [quarters_to_collect |-> list,
                                  curr_y |-> u_out.curr_y + 1, curr_q |-> 1]
                            ELSE [quarters_to_collect |-> list,
                                  curr_y |-> u_out.curr_y, curr_q |-> u_out.curr_q + 1]
    /\ UNCHANGED u_in
    /\ UNCHANGED run

\* the rest of the call, from the locals before the DB loop
Enter ==
    /\ u_pc = "planned"
    /\ StartRunLocals(u_in, watch)
    /\ u_pc' = "running"
    /\ UNCHANGED <<u_in, u_out>>

\* the keys of the periods a call for ym follows
TermKeys(ym) == {<<p[1], p[2], fs>> : p \in Range(Window(ym)), fs \in Range(fs_divs)}

\* the rows that earlier calls have stored for a set of keys
StoredFor(keys) ==
    UNION {save_financial_data_to_db({},
               get_financial_data([raises |-> FALSE, status |-> "000", list |-> PayloadFull]),
               k[1], k[2], report_code(k[2]), k[3]) : k \in keys}

\* earlier calls have left rows of the followed periods in the cache
Stored(keys) ==
    /\ u_pc = "call"
    /\ cached_financials = {}
    /\ keys # {}
    /\ cached_financials' = StoredFor(keys)
    /\ UNCHANGED <<processing_status, pc, year_month, all_data, missing_tasks,
                   determined_fs_divs, idx, probe_fs, api_tasks, future, result_df,
                   log, outcome, db0, watch, got>>
    /\ UNCHANGED unit

\* the steps of one call
CallSteps ==
    \/ PlanStart
    \/ PlanStep
    \/ Enter
    \/ ScanPeriod
    \/ \E res \in Responses : ProbeFetch(res)
    \/ PrepareTasks
    \/ StartTask
    \/ \E i \in DOMAIN future : \E res \in Responses : TaskDone(i, res)
    \/ Finish

NextTerm ==
    \/ \E keys \in SUBSET TermKeys(u_in) : Stored(keys)
    \/ CallSteps

\* the call goes on while it has a step to take: the main thread runs, the
\* workers take the queued tasks, and every request returns or times out
\* (timeout=10)
SpecTerm == InitTerm /\ [][NextTerm]_vars /\ WF_vars(CallSteps)

\* C32: every call returns, whatever the month of its target, the cache and
\* the answers of the remote; no period is probed twice under one variant
C32_Termination ==
    /\ (u_pc = "call") ~> (u_pc = "running" /\ pc = "done")
    /\ [](\A i, j \in DOMAIN log :
             (log[i].op = "probe" /\ log[j].op = "probe" /\ Key(log[i]) = Key(log[j]))
                 => i = j)

\* a call for a target with month 13 has returned after probing and a bulk
\* phase
C32_Witness ==
    /\ u_pc = "running"
    /\ pc = "done"
    /\ u_in = 202513
    /\ \E i \in DOMAIN log : log[i].op = "probe"
    /\ api_tasks # <<>>

(***************************************************************************)
(* The batch of src/automation.py: get_unprocessed_companies with its      *)
(* directory sync, and run_automation handling the companies it returned   *)
(* through the app.  u_in is the list of listed companies the remote has;  *)
(* u_out holds the tables corp_codes (corp_code -> corp_name) and          *)
(* processing_status (the corp_codes with a row) and the locals.           *)
(***************************************************************************)
\* BATCH_SIZE = 10
BATCH_SIZE == 10

BatchNames == {<<"a">>, <<"a", "b">>}
BatchCodes == {<<0, 0, 1, 2, 6, 0, 0, n>> : n \in 1..3}

\* a corp_codes table: corp_code is its primary key, names may repeat
Tables == UNION {[S -> BatchNames] : S \in SUBSET BatchCodes}

RECURSIVE ValueOf(_)
\* a code read as a number (its texts have one width, so ORDER BY on the
\* text is the order of the numbers)
ValueOf(code) ==
    IF code = <<>> THEN 0 ELSE 10 * ValueOf(SubSeq(code, 1, Len(code) - 1)) + code[Len(code)]

RECURSIVE OrderByCode(_)
\* ORDER BY c.corp_code ASC
OrderByCode(S) ==
    IF S = {} THEN <<>>
    ELSE LET c == CHOOSE x \in S : \A y \in S : ValueOf(x) <= ValueOf(y)
         IN  <<c>> \o OrderByCode(S \ {c})

\* the SELECT of get_unprocessed_companies: LEFT JOIN ... WHERE p.corp_code
\* IS NULL ORDER BY c.corp_code ASC LIMIT BATCH_SIZE
Unprocessed(corp_codes, status) ==
    LET all == OrderByCode(DOMAIN corp_codes \ status)
        n == IF Len(all) <= BATCH_SIZE THEN Len(all) ELSE BATCH_SIZE
    IN  [i \in 1..n |-> [corp_name |-> corp_codes[all[i]], corp_code |-> all[i]]]

\* df.set_index('corp_name')['corp_code'].to_dict(): one code per name; of
\* rows with one name the row that the SELECT returned last is kept, and
\* the SELECT has no ORDER BY
DictsOf(corp_codes) ==
    LET names == {corp_codes[c] : c \in DOMAIN corp_codes}
    IN  {d \in [names -> BatchCodes] :
            \A name \in names : d[name] \in DOMAIN corp_codes /\ corp_codes[d[name]] = name}

InitBatch ==
    /\ InitRun
    /\ u_pc = "start"
    /\ u_in \in Tables
    /\ u_out \in [corp_codes : {<<>>, u_in}, processing_status : {{}},
                  companies : {<<>>}, i : {0}, depth : {0}, synced : {"no"},
                  handled : {{}}]

\* run_automation: companies = get_unprocessed_companies()
CallGetUnprocessed ==
    /\ u_pc = "start"
    /\ u_pc' = "query"
    /\ u_out' = [u_out EXCEPT !.depth = 1, !.synced = "no", !.companies = <<>>, !.i = 0]
    /\ UNCHANGED u_in
    /\ UNCHANGED run

\* get_unprocessed_companies up to its return or its sync; connected: the
\* database answered (otherwise except Exception: return [])
Query(connected) ==
    /\ u_pc = "query"
    /\ IF ~connected
       THEN /\ u_pc' = "returned"
            /\ u_out' = [u_out EXCEPT !.companies = <<>>]
       ELSE IF DOMAIN u_out.corp_codes = {}
       THEN /\ u_pc' = "sync"
            /\ UNCHANGED u_out
       ELSE /\ u_pc' = "returned"
            /\ u_out' = [u_out EXCEPT
                            !.companies = Unprocessed(u_out.corp_codes, u_out.processing_status)]
    /\ UNCHANGED u_in
    /\ UNCHANGED run

\* the step below, calling get_unprocessed_companies again whatever the sync
\* gave
SyncCorpCodesAlwaysRetry(answered) ==
    /\ u_pc = "sync"
    /\ u_pc' = "query"
    /\ u_out' = [u_out EXCEPT !.corp_codes = IF answered THEN u_in ELSE @,
                              !.depth = @ + 1,
                              !.synced = IF answered /\ DOMAIN u_in # {}
                                         THEN "inserted" ELSE "nothing"]
    /\ UNCHANGED u_in
    /\ UNCHANGED run

\* sync_corp_codes(), and what get_unprocessed_companies does with its
\* result; answered: the request and the insert went through
SyncCorpCodes(answered) ==
    /\ u_pc = "sync"
    /\ IF answered /\ DOMAIN u_in # {}
       THEN /\ u_pc' = "query"
            /\ u_out' = [u_out EXCEPT !.corp_codes = u_in, !.depth = @ + 1, !.synced = "inserted"]
       ELSE /\ u_pc' = "returned"
            /\ u_out' = [u_out EXCEPT !.companies = <<>>, !.synced = "nothing"]
    /\ UNCHANGED u_in
    /\ UNCHANGED run

\* run_automation with the list: return when it is empty, else the loop
StartLoop ==
    /\ u_pc = "returned"
    /\ u_pc' = IF u_out.companies = <<>> THEN "finished" ELSE "batch"
    /\ u_out' = [u_out EXCEPT !.depth = 0, !.i = 1]
    /\ UNCHANGED u_in
    /\ UNCHANGED run

\* what the app does with the name the batch typed in
AppOutcomes == {"success", "no_data", "no_tracked_data", "timeout"}

\* one company of the loop of run_automation: the app resolves the typed
\* name through codes, the dict of get_company_codes, and collects; on
\* success the only status row is the one collect_financials writes for the
\* code it resolved, otherwise update_status_to_not_found(code, name)
HandleCompany(shown, codes) ==
    /\ u_pc = "batch"
    /\ LET company == u_out.companies[u_out.i]
           found == search_company_code(codes, company.corp_name)
           by_app == IF found # NoCode /\ shown \in {"success", "no_tracked_data"}
                     THEN {found} ELSE {}
           by_batch == IF shown = "success" /\ found # NoCode
                       THEN {} ELSE {company.corp_code}
       IN  /\ u_out' = [u_out EXCEPT
                           !.processing_status = @ \cup by_app \cup by_batch,
                           !.handled = @ \cup {company.corp_code},
                           !.i = @ + 1]
           /\ u_pc' = IF u_out.i < Len(u_out.companies) THEN "batch" ELSE "start"
    /\ UNCHANGED u_in
    /\ UNCHANGED run

NextBatch ==
    \/ CallGetUnprocessed
    \/ \E connected \in BOOLEAN : Query(connected)
    \/ \E answered \in BOOLEAN : SyncCorpCodes(answered)
    \/ StartLoop
    \/ \E shown \in AppOutcomes : \E codes \in DictsOf(u_out.corp_codes) :
          HandleCompany(shown, codes)

SpecBatch == InitBatch /\ [][NextBatch]_vars

\* C33: every company the batch has handled has a processing_status row,
\* and a list that get_unprocessed_companies returns holds none of them
C33_BatchProgress ==
    /\ \A code \in u_out.handled : code \in u_out.processing_status
    /\ u_pc = "returned" =>
          \A k \in DOMAIN u_out.companies :
              u_out.companies[k].corp_code \notin u_out.handled

\* C34: get_unprocessed_companies is never more than two calls deep; it is
\* two deep only after a sync that inserted companies, and then the table
\* is not empty; after a sync that failed or gave no company it returns the
\* empty list from its first call
C34_BoundedResync ==
    /\ u_out.depth <= 2
    /\ u_out.depth = 2 => (u_out.synced = "inserted" /\ DOMAIN u_out.corp_codes # {})
    /\ (u_pc = "returned" /\ u_out.synced = "nothing") =>
          (u_out.companies = <<>> /\ u_out.depth = 1)

\* the second call, made after a sync that inserted companies, has returned
\* them
C34_Witness ==
    /\ u_pc = "returned"
    /\ u_out.depth = 2
    /\ u_out.synced = "inserted"
    /\ u_out.companies # <<>>

====
